---- MODULE Spec2Model ----
(***************************************************************************)
(* The rewards-tree watchtower task of the smartnode daemon                *)
(* (submitRewardsTree): the interval clock, the snapshot selection on the  *)
(* Beacon chain, the isRunning guard, the resume-from-file path, the       *)
(* background generation goroutine, the upload and the submission.         *)
(*                                                                         *)
(* Thread 0 is the task that invokes run(); the watchtower loop calls      *)
(* run() again only after the previous call has returned.  Thread k > 0 is *)
(* the goroutine spawned by the k-th invocation of run().  Calls that only *)
(* read the chain are taken together with the next step that touches the   *)
(* task's own state, the disk or the outside world.                        *)
(***************************************************************************)
EXTENDS Integers, Sequences, FiniteSets, TLC

\* ------------------------------------------------------------------ bounds
\* Number of run() invocations in one behaviour.
MaxRuns == 2

\* Latest execution block time, in seconds, the model lets the chain reach.
MaxTime == 2

\* Highest Beacon slot for which the model describes a block.
MaxSlot == 3

\* Number of slots below slot 0 (after the uint64 wrap) the walk is followed.
MaxWrapSteps == 2

\* Highest network id an artifact's NetworkRewards map may hold.
MaxNetwork == 3

\* The number of UpdateState calls made on the StateLocker.
MaxUpdates == 3

\* ------------------------------------------------------------------ values
Threads == 0 .. MaxRuns
Goroutines == 1 .. MaxRuns

\* Optional values and byte strings are sequences; <<>> is nil / no bytes.
NoBytes == <<>>
NoCid == <<>>

\* time.Duration division and Go integer division truncate toward zero.
TruncDiv(a, b) == IF a >= 0 THEN a \div b ELSE -((-a) \div b)

\* math.Ceil(a / float64(b)) for b > 0.
CeilDiv(a, b) == IF a >= 0 THEN (a + b - 1) \div b ELSE -((-a) \div b)

\* A uint64 slot counter: [wrapped |-> FALSE, v |-> n] is the value n,
\* [wrapped |-> TRUE, v |-> n] is the value 2^64 - n (n >= 1).
U64(n) == [wrapped |-> FALSE, v |-> n]

\* targetSlot-- on a uint64: 0 wraps to 2^64 - 1.
U64Dec(x) ==
    IF x.wrapped THEN [x EXCEPT !.v = x.v + 1]
    ELSE IF x.v = 0 THEN [wrapped |-> TRUE, v |-> 1]
    ELSE [x EXCEPT !.v = x.v - 1]

\* json.Marshal / json.Unmarshal of a document.
Marshal(doc) == <<"json", doc>>
Unmarshal(bytes) == bytes[2]

\* zstd EncodeAll.
Compress(bytes) == <<"zstd">> \o bytes

\* The content identifier Web3.Storage returns for an uploaded payload.
CidOf(payload) == <<"cid">> \o payload

\* The hex string GenerateTree stores in MerkleRoot, hexutil.RemovePrefix and
\* hex.DecodeString / common.BytesToHash on it.
HexEncode(root) == <<"0x", root>>
RemovePrefix(s) == IF Len(s) > 0 /\ s[1] = "0x" THEN Tail(s) ELSE s
DecodeString(s) == s[1]

\* The Merkle root the tree builder computes for its inputs.
TreeRoot(index, consensusBlock, executionBlock, intervals) ==
    [index |-> index, consensusBlock |-> consensusBlock,
     executionBlock |-> executionBlock, intervals |-> intervals]

\* Smartnode.GetRewardsTreePath / GetMinipoolPerformancePath and the
\* compressed counterparts (path + RewardsTreeIpfsExtension).
GetRewardsTreePath(index) == <<"rp-rewards", index>>
GetMinipoolPerformancePath(index) == <<"rp-minipool-performance", index>>
CompressedPath(path) == path \o <<".zst">>

\* ------------------------------------------------------------------ state
VARIABLES
    \* the chain, as the clients report it
    eth2Config,        \* Beacon config: GenesisTime, SecondsPerSlot, ...
    beaconBlocks,      \* slot -> [exists, ExecutionBlockNumber]
    finalizedEpoch,    \* beaconHead.FinalizedEpoch, as last reported
    startTime,         \* rewards.GetClaimIntervalTimeStart
    intervalTime,      \* rewards.GetClaimIntervalTime
    latestBlockTime,   \* time of the latest execution block, as last reported
    rewardIndex,       \* rewards.GetRewardIndex
    nodeTrusted,       \* trustednode.GetMemberExists for this node
    hasSubmitted,      \* rewards.snapshot.submitted.node for this node and index
    \* the configuration
    cfg,               \* RewardsTreeMode, Web3StorageApiToken, ArchiveECUrl
    clients,           \* t.rp and t.ec, the clients the task was created with
    \* the task
    isRunning,         \* submitRewardsTree.isRunning
    th,                \* thread -> program counter, locals, and what it has done
    sel,               \* what the current run() computed on its fast path
    runCount,          \* run() invocations begun so far
    \* the disk and the outside world
    files,             \* path -> [exists, bytes]
    \* WithdrawMinipool (shared/api/minipool/withdraw.go)
    minipoolContract,  \* what the contracts answer about the minipool
    withdrawPc,        \* where WithdrawMinipool is
    checks,            \* status goroutine -> [pc, err]
    received,          \* the loop counter of the receive loop
    response,          \* the MinipoolWithdrawResponse
    withdrawRet,       \* what WithdrawMinipool returned
    txSent,            \* withdrawMinipoolDeposit transactions sent
    \* StateLocker (collectors) and one reader of it
    lockerState,       \* l.state
    lockerTotalEffectiveStake, \* l.totalEffectiveStake
    updates,           \* UpdateState calls made so far
    reader             \* the reader: [pc, state, totalEffectiveStake]

chainVars == <<eth2Config, beaconBlocks, finalizedEpoch, startTime, intervalTime,
               latestBlockTime, rewardIndex, nodeTrusted, hasSubmitted>>
taskVars == <<cfg, clients, isRunning, th, sel, runCount>>
worldVars == <<files>>
withdrawVars == <<minipoolContract, withdrawPc, checks, received, response,
                  withdrawRet, txSent>>
lockerVars == <<lockerState, lockerTotalEffectiveStake, updates, reader>>
otherVars == <<withdrawVars, lockerVars>>
vars == <<chainVars, taskVars, worldVars, otherVars>>

\* ------------------------------------------------------------------ helpers
NoFile == [exists |-> FALSE, bytes |-> NoBytes]
FileOfNothing(bytes) == [exists |-> FALSE, bytes |-> NoBytes]
FileOf(bytes) == [exists |-> TRUE, bytes |-> bytes]

\* A goroutine that has been spawned and has not yet exited.
Active(g) == th[g].pc \notin {"none", "done", "failed"}

\* The locals of a thread; did is the log of the calls it has made so far.
InitThread(pc) ==
    [pc |-> pc, ret |-> "none", nodeTrusted |-> FALSE, intervalsPassed |-> 0,
     snapshotBeaconBlock |-> 0, elBlockIndex |-> 0, currentIndex |-> 0,
     rp |-> "default", rewardsFile |-> <<>>,
     minipoolPerformanceBytes |-> NoBytes, wrapperBytes |-> NoBytes,
     cid |-> NoCid, submission |-> <<>>, txClient |-> "none", did |-> <<>>]

\* run() returns val to its caller.
Return(val) == [th EXCEPT ![0].pc = "returned", ![0].ret = val]

\* part_000:351-357 and the return that follows every call of it: the error
\* is logged and the goroutine ends; its locals are gone.  (What it does to
\* isRunning is RunningAfter.)
HandleError(g, err) == [th EXCEPT ![g] = InitThread("failed")]

\* part_000:341-344: the end of the generation; the goroutine's locals are
\* gone.  (What it does to isRunning is RunningAfter.)
GoFinish(g) == [th EXCEPT ![g] = InitThread("done")]

\* An error in code shared by run() and the goroutine: run() returns it
\* (wrapped), the goroutine passes it to handleError and returns.
Fail(t, err) == IF t = 0 THEN Return(err) ELSE HandleError(t, err)

\* part_000:341-343 and 354-356: isRunning after a step of thread t that
\* leaves the threads as `next`: a goroutine that ends, through handleError or
\* at the end of the generation, locks and clears it.
RunningAfterNeverCleared(t, next) == isRunning
RunningAfterDoneKept(t, next) ==
    IF t # 0 /\ next[t].pc = "failed" THEN FALSE ELSE isRunning
RunningAfterErrorKept(t, next) ==
    IF t # 0 /\ next[t].pc = "done" THEN FALSE ELSE isRunning
RunningAfter(t, next) ==
    IF t # 0 /\ next[t].pc \in {"failed", "done"} THEN FALSE ELSE isRunning

\* ------------------------------------------------------------------ getSnapshotConsensusBlock
\* bc.GetBeaconBlock(slot): (block, exists).  No block is known outside the
\* slots the chain has reached, in particular at the slots just below 2^64.
GetBeaconBlock(slot) ==
    IF ~slot.wrapped /\ slot.v \in DOMAIN beaconBlocks
    THEN beaconBlocks[slot.v]
    ELSE [exists |-> FALSE, ExecutionBlockNumber |-> 0]

\* part_000:500-506: the target slot, its epoch and the required epoch.
TargetSlotOf(endTime) ==
    CeilDiv(endTime - eth2Config.GenesisTime, eth2Config.SecondsPerSlot)
TargetSlotEpochOf(endTime) == TargetSlotOf(endTime) \div eth2Config.SlotsPerEpoch
FirstSlotOf(epoch) == epoch * eth2Config.SlotsPerEpoch
LastSlotOf(epoch) == epoch * eth2Config.SlotsPerEpoch + (eth2Config.SlotsPerEpoch - 1)
RequiredEpochOf(endTime) == TargetSlotEpochOf(endTime) + 1

\* part_000:508-511.
IsFinalizedOneEpochEarly(finalized, requiredEpoch) == ~(finalized + 1 < requiredEpoch)
IsFinalized(finalized, requiredEpoch) == ~(finalized < requiredEpoch)

\* part_000:527: the time of the required epoch.
BlockTimeOfNominalEpoch(requiredEpoch) ==
    eth2Config.GenesisTime + (requiredEpoch - 1) * eth2Config.SecondsPerEpoch
BlockTime(requiredEpoch) ==
    eth2Config.GenesisTime + requiredEpoch * eth2Config.SecondsPerEpoch

\* part_000:521-524: the slot tried after an empty one.
PreviousSlotButOne(targetSlot) == U64Dec(U64Dec(targetSlot))
PreviousSlot(targetSlot) == U64Dec(targetSlot)

\* part_000:513-530: the backward walk from targetSlot, having made `queries`
\* block queries so far; the errAt-th query fails (none when errAt = 0).
\* Below slot 0 it is followed for MaxWrapSteps slots and is then still
\* walking.
RECURSIVE WalkSkippingFailedQueries(_, _, _)
WalkSkippingFailedQueries(targetSlot, queries, errAt) ==
    LET base == [state |-> "walking", targetSlot |-> targetSlot,
                 blockQueries |-> queries, skips |-> queries,
                 ExecutionBlockNumber |-> 0]
    IN  IF targetSlot.wrapped /\ targetSlot.v > MaxWrapSteps
        THEN base
        ELSE IF queries + 1 = errAt \/ ~GetBeaconBlock(targetSlot).exists
        THEN WalkSkippingFailedQueries(PreviousSlot(targetSlot), queries + 1, errAt)
        ELSE [base EXCEPT !.state = "found", !.blockQueries = queries + 1,
                          !.ExecutionBlockNumber =
                              GetBeaconBlock(targetSlot).ExecutionBlockNumber]
RECURSIVE WalkStoppingAtSlotZero(_, _, _)
WalkStoppingAtSlotZero(targetSlot, queries, errAt) ==
    LET base == [state |-> "walking", targetSlot |-> targetSlot,
                 blockQueries |-> queries, skips |-> queries,
                 ExecutionBlockNumber |-> 0]
    IN  IF targetSlot.wrapped
        THEN [base EXCEPT !.state = "error", !.targetSlot = U64(0)]
        ELSE IF queries + 1 = errAt
        THEN [base EXCEPT !.state = "error", !.blockQueries = queries + 1]
        ELSE IF ~GetBeaconBlock(targetSlot).exists
        THEN WalkStoppingAtSlotZero(PreviousSlot(targetSlot), queries + 1, errAt)
        ELSE [base EXCEPT !.state = "found", !.blockQueries = queries + 1,
                          !.ExecutionBlockNumber =
                              GetBeaconBlock(targetSlot).ExecutionBlockNumber]
RECURSIVE Walk(_, _, _)
Walk(targetSlot, queries, errAt) ==
    LET base == [state |-> "walking", targetSlot |-> targetSlot,
                 blockQueries |-> queries, skips |-> queries,
                 ExecutionBlockNumber |-> 0]
    IN  IF targetSlot.wrapped /\ targetSlot.v > MaxWrapSteps
        THEN base
        ELSE IF queries + 1 = errAt
        THEN [base EXCEPT !.state = "error", !.blockQueries = queries + 1]
        ELSE IF ~GetBeaconBlock(targetSlot).exists
        THEN Walk(PreviousSlot(targetSlot), queries + 1, errAt)
        ELSE [base EXCEPT !.state = "found", !.blockQueries = queries + 1,
                          !.ExecutionBlockNumber =
                              GetBeaconBlock(targetSlot).ExecutionBlockNumber]

\* What run() remembers of its fast path; also the history of the calls made.
InitSel ==
    [called |-> FALSE, endTime |-> 0, firstTargetSlot |-> 0, targetSlotEpoch |-> 0,
     requiredEpoch |-> 0, seenFinalizedEpoch |-> 0, state |-> "none",
     targetSlot |-> U64(0), blockQueries |-> 0, skips |-> 0,
     ExecutionBlockNumber |-> 0, blockTime |-> 0, beganWhileActive |-> FALSE]

\* part_000:486-532: getSnapshotConsensusBlock(endTime) when the head reports
\* `finalized`: the state is "not finalized", "error", "found" or "walking".
GetSnapshotConsensusBlock(endTime, finalized, errAt) ==
    LET targetSlotEpoch == TargetSlotEpochOf(endTime)
        targetSlot == LastSlotOf(targetSlotEpoch)
        requiredEpoch == RequiredEpochOf(endTime)
        walk == Walk(U64(targetSlot), 0, errAt)
        begun == [InitSel EXCEPT !.called = TRUE, !.endTime = endTime,
                                 !.firstTargetSlot = targetSlot,
                                 !.targetSlotEpoch = targetSlotEpoch,
                                 !.requiredEpoch = requiredEpoch,
                                 !.seenFinalizedEpoch = finalized]
    IN  IF ~IsFinalized(finalized, requiredEpoch)
        THEN [begun EXCEPT !.state = "not finalized"]
        ELSE [begun EXCEPT !.state = walk.state,
                           !.targetSlot = walk.targetSlot,
                           !.blockQueries = walk.blockQueries,
                           !.skips = walk.skips,
                           !.ExecutionBlockNumber = walk.ExecutionBlockNumber,
                           !.blockTime = IF walk.state = "found"
                                         THEN BlockTime(requiredEpoch) ELSE 0]

\* ------------------------------------------------------------------ run(): the fast path
\* part_000:136-139: the number of whole intervals since the interval's start.
IntervalsPassed(latest, start, interval) == TruncDiv(latest - start, interval)
EndTime(start, interval, intervalsPassed) == start + interval * intervalsPassed

\* part_000:140-142: run() goes on only when an interval has passed.
IntervalElapsedAlways(intervalsPassed) == TRUE
IntervalElapsed(intervalsPassed) == intervalsPassed # 0

\* part_000:114.
EligibleAlways(trusted, mode) == TRUE
Eligible(trusted, mode) == ~(~trusted /\ mode # "generate")

\* rprewards.GetELBlockHeaderForTime: the number of the execution block at
\* a timestamp (pre-merge chains).
GetELBlockHeaderForTime(time) == 1000 + time

\* part_000:150-161: the execution block of the snapshot, by its number when
\* the Beacon block carries one and by the epoch's time otherwise.
ElCall(elBlockNumber) ==
    IF elBlockNumber = 0 THEN "GetELBlockHeaderForTime" ELSE "HeaderByNumber"
ElBlockIndexByTime(elBlockNumber, nextIntervalEpochTime) ==
    GetELBlockHeaderForTime(nextIntervalEpochTime)
ElBlockIndex(elBlockNumber, nextIntervalEpochTime) ==
    IF elBlockNumber = 0 THEN GetELBlockHeaderForTime(nextIntervalEpochTime)
    ELSE elBlockNumber

\* part_000:170-177: lock, read isRunning, unlock.
GuardPasses(running) == ~running

\* The calls of the fast path that can fail, and the block query that fails.
Faults ==
    {"none", "account or membership", "interval clock", "beacon config or head",
     "beacon block 1", "beacon block 2", "execution header", "reward index"}
ErrAtOf(fault) ==
    IF fault = "beacon block 1" THEN 1 ELSE IF fault = "beacon block 2" THEN 2 ELSE 0

\* part_000:93-177: run() up to the guard, on a chain whose latest block has
\* time `now` and whose head reports `finalized`, with `fault` failing:
\* the thread and the selection it ends with.
FastPath(now, finalized, fault) ==
    LET intervalsPassed == IntervalsPassed(now, startTime, intervalTime)
        endTime == EndTime(startTime, intervalTime, intervalsPassed)
        snap == GetSnapshotConsensusBlock(endTime, finalized, ErrAtOf(fault))
        none == [InitSel EXCEPT !.beganWhileActive = \E g \in Goroutines : Active(g)]
        found == [snap EXCEPT !.beganWhileActive = none.beganWhileActive]
        t0 == InitThread("returned")
        t1 == [t0 EXCEPT !.nodeTrusted = nodeTrusted,
                         !.intervalsPassed = intervalsPassed]
        t2 == [t1 EXCEPT !.snapshotBeaconBlock = snap.targetSlot.v,
                         !.did = <<ElCall(snap.ExecutionBlockNumber)>>]
        t3 == [t2 EXCEPT !.elBlockIndex =
                             ElBlockIndex(snap.ExecutionBlockNumber, snap.blockTime),
                         !.currentIndex = rewardIndex]
        t4 == [t3 EXCEPT !.did = Append(t3.did, "lock")]
    IN  IF fault = "account or membership"
        THEN [t |-> [t0 EXCEPT !.ret = "error: account or membership"], sel |-> none]
        ELSE IF ~Eligible(nodeTrusted, cfg.RewardsTreeMode)
        THEN [t |-> [t0 EXCEPT !.ret = "nil"], sel |-> none]
        ELSE IF fault = "interval clock"
        THEN [t |-> [t0 EXCEPT !.ret = "error: interval clock"], sel |-> none]
        ELSE IF ~IntervalElapsed(intervalsPassed)
        THEN [t |-> [t1 EXCEPT !.ret = "nil"], sel |-> none]
        ELSE IF fault = "beacon config or head"
        THEN [t |-> [t1 EXCEPT !.ret = "error: beacon config or head"],
              sel |-> [none EXCEPT !.called = TRUE, !.state = "error"]]
        ELSE IF snap.state = "not finalized"
        THEN [t |-> [t1 EXCEPT !.ret = "error: waiting until epoch is finalized"],
              sel |-> found]
        ELSE IF snap.state = "error"
        THEN [t |-> [t1 EXCEPT !.ret = "error: getting beacon block"], sel |-> found]
        ELSE IF snap.state = "walking"
        THEN [t |-> [t1 EXCEPT !.pc = "walk"], sel |-> found]
        ELSE IF fault = "execution header"
        THEN [t |-> [t2 EXCEPT !.ret = "error: execution header"], sel |-> found]
        ELSE IF fault = "reward index"
        THEN [t |-> [t2 EXCEPT !.ret = "error: reward index"], sel |-> found]
        ELSE IF ~GuardPasses(isRunning)
        THEN [t |-> [t4 EXCEPT !.ret = "nil"], sel |-> found]
        ELSE [t |-> [t4 EXCEPT !.pc = "stat"], sel |-> found]

\* The highest finalized epoch the model lets the head report.
MaxFinalized == (MaxSlot \div eth2Config.SlotsPerEpoch) + 1

\* run() is invoked: part_000:93-177.  The chain has moved on to some latest
\* block time, which never goes back; the head reports some finalized epoch,
\* never less than the one finalized when the task was created.
RunStart ==
    /\ th[0].pc \in {"idle", "returned"}
    /\ runCount < MaxRuns
    /\ runCount' = runCount + 1
    /\ \E now \in latestBlockTime .. MaxTime,
          finalized \in finalizedEpoch .. MaxFinalized,
          fault \in Faults :
         /\ latestBlockTime' = now
         /\ th' = [th EXCEPT ![0] = FastPath(now, finalized, fault).t]
         /\ sel' = FastPath(now, finalized, fault).sel
    /\ UNCHANGED <<eth2Config, beaconBlocks, finalizedEpoch, startTime, intervalTime,
                   rewardIndex, nodeTrusted, hasSubmitted, cfg, clients, otherVars, isRunning, worldVars>>

\* ------------------------------------------------------------------ run(): the artifact file
\* part_000:232-233 and 345-347: go func() is started with the locals of
\* this invocation captured, and run() returns nil.
Spawn ==
    [th EXCEPT ![0].pc = "returned", ![0].ret = "nil",
               ![0].did = th[0].did \o <<"stat", "go">>,
               ![runCount] = [th[0] EXCEPT !.pc = "spawned", !.did = <<>>]]

\* part_000:185-186: whether the artifact file of the interval is there.
FileExistsNever(index) == FALSE
FileExists(index) == files[GetRewardsTreePath(index)].exists

\* part_000:535-539: the submitted flag of this node for the interval.
HasSubmittedTreeOfNobody(submitted) == FALSE
HasSubmittedTree(submitted) == submitted

\* run() returns val after os.Stat has found the artifact file.
ReturnAfterStat(val) == [Return(val) EXCEPT ![0].did = Append(th[0].did, "stat")]

\* part_000:179-201 and 232-233: the artifact file is looked for.  When it
\* exists the node either stops here (not trusted, or already submitted) or
\* goes on to resubmit it; when it does not, the generation is spawned.
RunStat ==
    /\ th[0].pc = "stat"
    /\ IF FileExists(th[0].currentIndex)
       THEN IF ~th[0].nodeTrusted
            THEN th' = ReturnAfterStat("nil")
            ELSE \/ th' = ReturnAfterStat("error: checking if submission was processed")
                 \/ th' = IF HasSubmittedTree(hasSubmitted)
                          THEN ReturnAfterStat("nil")
                          ELSE [th EXCEPT ![0].pc = "readFile",
                                          ![0].did = Append(th[0].did, "stat")]
       ELSE th' = Spawn
    /\ UNCHANGED <<chainVars, cfg, clients, otherVars, isRunning, sel, runCount, worldVars>>

\* json.Unmarshal succeeds on what json.Marshal wrote, and on nothing else
\* the model puts in a file.
IsJson(bytes) == Len(bytes) = 2 /\ bytes[1] = "json"

\* part_000:203-216: the file is read and deserialized; its bytes and the
\* deserialized artifact are what the upload and the submission get.
ResumeFromRebuilt(bytes) ==
    [th EXCEPT ![0].pc = "uploadTree",
               ![0].wrapperBytes = bytes,
               ![0].rewardsFile =
                   <<[Unmarshal(bytes) EXCEPT !.MerkleRoot = HexEncode(<<"rebuilt">>)]>>]
ResumeFrom(bytes) ==
    [th EXCEPT ![0].pc = "uploadTree",
               ![0].wrapperBytes = bytes,
               ![0].rewardsFile = <<Unmarshal(bytes)>>]

\* part_000:209-213: json.Unmarshal has failed on the bytes of the file.
OnUnmarshalErrorIgnored(bytes) ==
    [th EXCEPT ![0].pc = "uploadTree",
               ![0].wrapperBytes = bytes,
               ![0].rewardsFile =
                   <<[Index |-> 0, ConsensusEndBlock |-> 0, ExecutionEndBlock |-> 0,
                      IntervalsPassed |-> 0, MerkleRoot |-> HexEncode(<<>>),
                      NetworkRewards |-> <<>>,
                      MinipoolPerformanceFileCID |-> NoCid]>>]
OnUnmarshalError(bytes) == Return("error: deserializing rewards tree file")

RunReadFile ==
    /\ th[0].pc = "readFile"
    /\ LET path == GetRewardsTreePath(th[0].currentIndex)
       IN  \/ th' = Return("error: reading rewards tree file")
           \/ /\ files[path].exists
              /\ th' = IF IsJson(files[path].bytes)
                       THEN ResumeFrom(files[path].bytes)
                       ELSE OnUnmarshalError(files[path].bytes)
    /\ UNCHANGED <<chainVars, cfg, clients, otherVars, isRunning, sel, runCount, worldVars>>

\* ------------------------------------------------------------------ uploadFileToWeb3Storage
\* Whether a thread is uploading the performance file or the artifact.
OnPerf(t) == th[t].pc \in {"uploadPerf", "putPerf"}

\* part_000:291 and 216, 322: the bytes and the compressed path a thread
\* hands to uploadFileToWeb3Storage.
UploadBytes(t) ==
    IF OnPerf(t) THEN th[t].minipoolPerformanceBytes ELSE th[t].wrapperBytes
UploadPath(t) ==
    IF OnPerf(t)
    THEN CompressedPath(GetMinipoolPerformancePath(th[t].currentIndex))
    ELSE CompressedPath(GetRewardsTreePath(th[t].currentIndex))

\* part_000:444-447.
HasTokenAlways(token) == TRUE
HasToken(token) == token # ""

\* part_000:443-470: the token, the client, the compression and the
\* compressed file.  A failed Write leaves the created file empty.
UploadLocal(t) ==
    /\ th[t].pc \in {"uploadPerf", "uploadTree"}
    /\ LET put == IF OnPerf(t) THEN "putPerf" ELSE "putTree"
           created == IF OnPerf(t) THEN "create perf.zst" ELSE "create tree.zst"
           path == UploadPath(t)
       IN  IF ~HasToken(cfg.Web3StorageApiToken)
           THEN /\ th' = Fail(t, "error: no Web3.Storage API token")
                /\ UNCHANGED files
           ELSE \/ /\ th' = Fail(t, "error: creating compressed file")
                   /\ UNCHANGED files
                \/ /\ th' = Fail(t, "error: writing compressed file")
                   /\ files' = [files EXCEPT ![path] = FileOf(NoBytes)]
                \/ /\ th' = [th EXCEPT ![t].pc = put,
                                       ![t].did = Append(th[t].did, created)]
                   /\ files' = [files EXCEPT ![path] = FileOf(Compress(UploadBytes(t)))]
    /\ isRunning' = RunningAfter(t, th')
    /\ UNCHANGED <<chainVars, cfg, clients, otherVars, sel, runCount>>

\* Where a thread goes on after an upload has returned a CID: part_000:297,
\* and part_000:220-223, 327-330.
AfterUploadWithoutCid(t, cid) ==
    IF OnPerf(t)
    THEN [th EXCEPT ![t].pc = "writeTree",
                    ![t].did = Append(th[t].did, "put perf"),
                    ![t].rewardsFile =
                        <<[th[t].rewardsFile[1] EXCEPT !.MinipoolPerformanceFileCID = cid]>>]
    ELSE [th EXCEPT ![t].pc = "submit",
                    ![t].did = Append(th[t].did, "put tree")]
AfterUpload(t, cid) ==
    IF OnPerf(t)
    THEN [th EXCEPT ![t].pc = "writeTree",
                    ![t].did = Append(th[t].did, "put perf"),
                    ![t].rewardsFile =
                        <<[th[t].rewardsFile[1] EXCEPT !.MinipoolPerformanceFileCID = cid]>>]
    ELSE [th EXCEPT ![t].pc = "submit", ![t].cid = cid,
                    ![t].did = Append(th[t].did, "put tree")]

\* part_000:472-481: the compressed file is rewound and its content is put
\* to Web3.Storage, which answers with the content identifier.
UploadPut(t) ==
    /\ th[t].pc \in {"putPerf", "putTree"}
    /\ \/ th' = Fail(t, "error: uploading")
       \/ th' = AfterUpload(t, CidOf(files[UploadPath(t)].bytes))
    /\ isRunning' = RunningAfter(t, th')
    /\ UNCHANGED <<chainVars, cfg, clients, otherVars, sel, runCount, files>>

\* ------------------------------------------------------------------ submitRewardsSnapshot
\* part_000:368-386: the three reward arrays, filled from network `network`
\* on; the loop stops at the first network id the map does not hold.
RECURSIVE NetworkArraysOfAllNetworks(_, _, _)
NetworkArraysOfAllNetworks(networkRewards, network, arrays) ==
    IF network > MaxNetwork
    THEN arrays
    ELSE IF network \notin DOMAIN networkRewards
    THEN NetworkArraysOfAllNetworks(networkRewards, network + 1, arrays)
    ELSE NetworkArraysOfAllNetworks(networkRewards, network + 1,
             [collateralRplRewards |->
                  Append(arrays.collateralRplRewards, networkRewards[network].CollateralRpl),
              oDaoRplRewards |->
                  Append(arrays.oDaoRplRewards, networkRewards[network].OracleDaoRpl),
              smoothingPoolEthRewards |->
                  Append(arrays.smoothingPoolEthRewards,
                         networkRewards[network].SmoothingPoolEth)])
RECURSIVE NetworkArrays(_, _, _)
NetworkArrays(networkRewards, network, arrays) ==
    IF network \notin DOMAIN networkRewards
    THEN arrays
    ELSE NetworkArrays(networkRewards, network + 1,
             [collateralRplRewards |->
                  Append(arrays.collateralRplRewards, networkRewards[network].CollateralRpl),
              oDaoRplRewards |->
                  Append(arrays.oDaoRplRewards, networkRewards[network].OracleDaoRpl),
              smoothingPoolEthRewards |->
                  Append(arrays.smoothingPoolEthRewards,
                         networkRewards[network].SmoothingPoolEth)])

\* part_000:369-371: the arrays before the loop.
NoArrays ==
    [collateralRplRewards |-> <<>>, oDaoRplRewards |-> <<>>,
     smoothingPoolEthRewards |-> <<>>]

\* part_000:362-406: the submission built from the artifact, the block
\* references, the CID and the number of intervals.
Submission(index, consensusBlock, executionBlock, rewardsFile, cid, intervalsPassed) ==
    LET arrays == NetworkArrays(rewardsFile.NetworkRewards, 0, NoArrays)
    IN  [RewardIndex |-> index,
         ExecutionBlock |-> executionBlock,
         ConsensusBlock |-> consensusBlock,
         MerkleRoot |-> DecodeString(RemovePrefix(rewardsFile.MerkleRoot)),
         MerkleTreeCID |-> cid,
         IntervalsPassed |-> intervalsPassed,
         NodeRPL |-> arrays.collateralRplRewards,
         TrustedNodeRPL |-> arrays.oDaoRplRewards,
         NodeETH |-> arrays.smoothingPoolEthRewards]

\* part_000:223 and 330: the arguments both callers pass.
SubmissionOfOneInterval(t) ==
    Submission(th[t].currentIndex, th[t].snapshotBeaconBlock, th[t].elBlockIndex,
               th[t].rewardsFile[1], th[t].cid, 1)
SubmissionOf(t) ==
    Submission(th[t].currentIndex, th[t].snapshotBeaconBlock, th[t].elBlockIndex,
               th[t].rewardsFile[1], th[t].cid, th[t].intervalsPassed)

\* part_000:409, 425 and 431: the client the gas estimate, the transaction
\* and the wait go through.
SubmitClientOfTheGeneration(t) == th[t].rp
SubmitClient(t) == clients.rp

\* What a thread does after submitRewardsSnapshot has returned nil:
\* part_000:228-229 and 336-344.
AfterSubmit(t) == IF t = 0 THEN Return("nil") ELSE GoFinish(t)

\* part_000:360-428: the transactor, the gas estimate and the gas check;
\* when the check declines nothing is sent and nil is returned, otherwise
\* the transaction is sent.
SubmitRewardsSnapshot(t) ==
    /\ th[t].pc = "submit"
    /\ \/ th' = Fail(t, "error: submitting rewards snapshot")
       \/ th' = IF t = 0
                THEN [Return("nil") EXCEPT ![0].did = Append(th[0].did, "gas declined")]
                ELSE GoFinish(t)
       \/ th' = [th EXCEPT ![t].pc = "wait", ![t].did = Append(th[t].did, "send tx"),
                           ![t].submission = <<SubmissionOf(t)>>,
                           ![t].txClient = SubmitClient(t)]
    /\ isRunning' = RunningAfter(t, th')
    /\ UNCHANGED <<chainVars, cfg, clients, otherVars, sel, runCount, files>>

\* part_000:430-437: the wait for the transaction.  A mined submission sets
\* the node's submitted flag for the interval; a reverted one is an error.
WaitForTransaction(t) ==
    /\ th[t].pc = "wait"
    /\ \/ /\ th' = Fail(t, "error: submitting rewards snapshot")
          /\ UNCHANGED hasSubmitted
       \/ /\ th' = AfterSubmit(t)
          /\ hasSubmitted' = TRUE
    /\ isRunning' = RunningAfter(t, th')
    /\ UNCHANGED <<eth2Config, beaconBlocks, finalizedEpoch, startTime, intervalTime,
                   latestBlockTime, rewardIndex, nodeTrusted, cfg, clients, otherVars, sel, runCount,
                   worldVars>>

\* ------------------------------------------------------------------ the generation goroutine
\* part_000:234-236.
GoStart(g) ==
    /\ th[g].pc = "spawned"
    /\ isRunning' = TRUE
    /\ th' = [th EXCEPT ![g].pc = "generate"]
    /\ UNCHANGED <<chainVars, cfg, clients, otherVars, sel, runCount, worldVars>>

\* The rewards of network n in an artifact: collateral RPL, Oracle DAO RPL
\* and smoothing pool ETH, in units that tell the network and the kind.
NetworkRewardsOf(n, scale) ==
    [CollateralRpl |-> scale * (10 * n + 1), OracleDaoRpl |-> scale * (10 * n + 2),
     SmoothingPoolEth |-> scale * (10 * n + 3)]

\* rprewards.NewRewardsFile and GenerateTree, part_000:264-265: the artifact
\* for the snapshot this goroutine was started with.
GenerateTree(g) ==
    [Index |-> th[g].currentIndex,
     ConsensusEndBlock |-> th[g].snapshotBeaconBlock,
     ExecutionEndBlock |-> th[g].elBlockIndex,
     IntervalsPassed |-> th[g].intervalsPassed,
     MerkleRoot |-> HexEncode(TreeRoot(th[g].currentIndex, th[g].snapshotBeaconBlock,
                                       th[g].elBlockIndex, th[g].intervalsPassed)),
     NetworkRewards |-> [n \in {0, 1} |-> NetworkRewardsOf(n, 1)],
     MinipoolPerformanceFileCID |-> NoCid]

\* The MinipoolPerformanceFile of an artifact.
MinipoolPerformanceFile(rewardsFile) == [Index |-> rewardsFile.Index]

\* part_000:246-250: ethclient.Dial is called when an archive EC is configured.
UsesArchive == cfg.ArchiveECUrl # ""
Dialed == IF UsesArchive THEN <<"dial">> ELSE <<>>

\* part_000:245-279: the archive client when one is configured, the tree, the
\* serialized performance file; each of them can fail.
GoGenerate(g) ==
    /\ th[g].pc = "generate"
    /\ \/ /\ UsesArchive
          /\ th' = HandleError(g, "error: connecting to archive EC")
       \/ th' = HandleError(g, "error: generating Merkle tree")
       \/ th' = HandleError(g, "error: serializing minipool performance file")
       \/ th' = [th EXCEPT ![g].pc = "writePerf",
                           ![g].did = Dialed \o <<"GenerateTree">>,
                           ![g].rp = IF UsesArchive THEN "archive" ELSE clients.rp,
                           ![g].rewardsFile = <<GenerateTree(g)>>,
                           ![g].minipoolPerformanceBytes =
                               Marshal(MinipoolPerformanceFile(GenerateTree(g)))]
    /\ isRunning' = RunningAfter(g, th')
    /\ UNCHANGED <<chainVars, cfg, clients, otherVars, sel, runCount, worldVars>>

\* ioutil.WriteFile by thread t, which goes on as `next` when it succeeds:
\* the file holds the bytes, or the call fails and leaves the file as it was
\* or created and empty.
WriteFile(t, what, path, bytes, next) ==
    \/ /\ th' = Fail(t, "error: saving file")
       /\ UNCHANGED files
    \/ /\ th' = Fail(t, "error: saving file")
       /\ files' = [files EXCEPT ![path] = FileOf(NoBytes)]
    \/ /\ th' = [next EXCEPT ![t].did = Append(th[t].did, what)]
       /\ files' = [files EXCEPT ![path] = FileOf(bytes)]

\* part_000:289 and 319: only an Oracle DAO node uploads and submits.
PublishesAlways(trusted) == TRUE
Publishes(trusted) == trusted

\* part_000:281-301: the performance file is written; a trusted node goes on
\* to upload it, another node marks the CID as absent.
GoWritePerf(g) ==
    /\ th[g].pc = "writePerf"
    /\ WriteFile(g, "write perf", GetMinipoolPerformancePath(th[g].currentIndex),
                 th[g].minipoolPerformanceBytes,
                 IF Publishes(th[g].nodeTrusted)
                 THEN [th EXCEPT ![g].pc = "uploadPerf"]
                 ELSE [th EXCEPT ![g].pc = "writeTree",
                                 ![g].rewardsFile =
                                     <<[th[g].rewardsFile[1] EXCEPT
                                          !.MinipoolPerformanceFileCID = <<"---">>]>>])
    /\ isRunning' = RunningAfter(g, th')
    /\ UNCHANGED <<chainVars, cfg, clients, otherVars, sel, runCount>>

\* part_000:303-319 and 337-344: the artifact is serialized and written; a
\* trusted node goes on to upload and submit it, another node has finished.
\* (A failed serialization is the failed write that leaves the file alone.)
GoWriteTree(g) ==
    /\ th[g].pc = "writeTree"
    /\ LET wrapperBytes == Marshal(th[g].rewardsFile[1])
       IN  WriteFile(g, "write tree", GetRewardsTreePath(th[g].currentIndex),
                     wrapperBytes,
                     IF Publishes(th[g].nodeTrusted)
                     THEN [th EXCEPT ![g].pc = "uploadTree",
                                     ![g].wrapperBytes = wrapperBytes]
                     ELSE GoFinish(g))
    /\ isRunning' = RunningAfter(g, th')
    /\ UNCHANGED <<chainVars, cfg, clients, otherVars, sel, runCount>>

\* ------------------------------------------------------------------ WithdrawMinipool
\* withdraw.go:77-81: the four status channels, one goroutine each.
Checks == {"withdrawalsDisabled", "nodeOwner", "status", "depositNotExists"}

\* withdraw.go:125: the number of values the receive loop waits for.
ChecksExpected == 4

\* withdraw.go:56: the address of the node account.
NodeAccount == "node"

\* The statuses of a minipool; the three of withdraw.go:141 among them.
Statuses == {"INITIALIZED", "PRELAUNCH", "WITHDRAWN", "TIMED_OUT"}

\* withdraw.go:53: the zero MinipoolWithdrawResponse.
ZeroResponse ==
    [Success |-> FALSE, Withdrawn |-> FALSE, MinipoolDidNotExist |-> FALSE,
     WithdrawalsDisabled |-> FALSE, InvalidNodeOwner |-> FALSE, NodeOwner |-> "",
     InvalidStatus |-> FALSE, Status |-> "INITIALIZED",
     NodeDepositDidNotExist |-> FALSE]

\* WithdrawMinipool has not been called.
WithdrawNotCalled ==
    /\ withdrawPc = "idle"
    /\ checks = [c \in Checks |-> [pc |-> "none", err |-> FALSE]]
    /\ received = 0
    /\ response = ZeroResponse
    /\ withdrawRet = "none"
    /\ txSent = 0

\* The minipools the model calls WithdrawMinipool on.
Minipools ==
    [exists : BOOLEAN, withdrawalAllowed : BOOLEAN, nodeOwner : {NodeAccount, "other"},
     status : Statuses, nodeDepositExists : BOOLEAN]

\* WithdrawMinipool returns ret.
WithdrawReturn(ret) == withdrawPc' = "returned" /\ withdrawRet' = ret

\* withdraw.go:53-81 and the four go statements of 84-122: the contract code
\* is looked up, the contract is initialised, the goroutines are started.
WithdrawStart ==
    /\ withdrawPc = "idle"
    /\ \/ /\ WithdrawReturn("error: retrieving contract code")
          /\ UNCHANGED <<checks, response>>
       \/ /\ ~minipoolContract.exists
          /\ response' = [response EXCEPT !.MinipoolDidNotExist = TRUE]
          /\ WithdrawReturn("response")
          /\ UNCHANGED checks
       \/ /\ minipoolContract.exists
          /\ WithdrawReturn("error: initialising minipool contract")
          /\ UNCHANGED <<checks, response>>
       \/ /\ minipoolContract.exists
          /\ checks' = [c \in Checks |-> [pc |-> "call", err |-> FALSE]]
          /\ withdrawPc' = "receive"
          /\ UNCHANGED <<response, withdrawRet>>
    /\ UNCHANGED <<chainVars, taskVars, worldVars, lockerVars, minipoolContract,
                   received, txSent>>

\* withdraw.go:84-122: the contract call of a status goroutine; it goes on
\* to send the error on errorChannel or the value on its own channel.
CheckCall(c) ==
    /\ checks[c].pc = "call"
    /\ \/ checks' = [checks EXCEPT ![c] = [pc |-> "sendError", err |-> TRUE]]
       \/ checks' = [checks EXCEPT ![c].pc = "send"]
    /\ UNCHANGED <<chainVars, taskVars, worldVars, lockerVars, minipoolContract,
                   withdrawPc, received, response, withdrawRet, txSent>>

\* withdraw.go:88, 98, 108, 118: the value a goroutine sends, stored in the
\* response by the case that receives it (127-134).
Received(c) ==
    IF c = "withdrawalsDisabled"
    THEN [response EXCEPT !.WithdrawalsDisabled = ~minipoolContract.withdrawalAllowed]
    ELSE IF c = "nodeOwner"
    THEN [response EXCEPT !.NodeOwner = minipoolContract.nodeOwner]
    ELSE IF c = "status"
    THEN [response EXCEPT !.Status = minipoolContract.status]
    ELSE [response EXCEPT !.NodeDepositDidNotExist = ~minipoolContract.nodeDepositExists]

\* withdraw.go:140-141.
Updated(r) ==
    [r EXCEPT !.InvalidNodeOwner = r.NodeOwner # NodeAccount,
              !.InvalidStatus = r.Status \notin {"INITIALIZED", "WITHDRAWN", "TIMED_OUT"}]

\* withdraw.go:144: whether the checks let the withdrawal go on.
PassedWithoutDeposit(r) ==
    ~(r.WithdrawalsDisabled \/ r.InvalidNodeOwner \/ r.InvalidStatus)
Passed(r) ==
    ~(r.WithdrawalsDisabled \/ r.InvalidNodeOwner \/ r.InvalidStatus
        \/ r.NodeDepositDidNotExist)

\* withdraw.go:125-147: a value is received from the channel of c, which
\* lets that goroutine end; after the last one the response is updated and
\* checked.
Receive(c) ==
    /\ withdrawPc = "receive"
    /\ checks[c].pc = "send"
    /\ checks' = [checks EXCEPT ![c].pc = "done"]
    /\ received' = received + 1
    /\ IF received' < ChecksExpected
       THEN /\ response' = Received(c)
            /\ UNCHANGED <<withdrawPc, withdrawRet>>
       ELSE /\ response' = Updated(Received(c))
            /\ IF Passed(response')
               THEN withdrawPc' = "send" /\ UNCHANGED withdrawRet
               ELSE WithdrawReturn("response")
    /\ UNCHANGED <<chainVars, taskVars, worldVars, lockerVars, minipoolContract, txSent>>

\* withdraw.go:135-136: an error is received from errorChannel and returned.
ReceiveError(c) ==
    /\ withdrawPc = "receive"
    /\ checks[c].pc = "sendError"
    /\ checks' = [checks EXCEPT ![c].pc = "done"]
    /\ WithdrawReturn("error: status check")
    /\ UNCHANGED <<chainVars, taskVars, worldVars, lockerVars, minipoolContract,
                   received, response, txSent>>

\* withdraw.go:150-171: the transactor, the transaction and its event.  A
\* failed ExecuteContractTransaction may or may not have sent the transaction.
SendWithdrawal ==
    /\ withdrawPc = "send"
    /\ \/ /\ WithdrawReturn("error: transactor")
          /\ UNCHANGED <<response, txSent>>
       \/ /\ WithdrawReturn("error: withdrawing deposit")
          /\ txSent' \in {txSent, txSent + 1}
          /\ UNCHANGED response
       \/ /\ txSent' = txSent + 1
          /\ \/ /\ response' = [response EXCEPT !.Success = TRUE]
                /\ WithdrawReturn("error: withdrawal event")
             \/ /\ response' = [response EXCEPT !.Success = TRUE, !.Withdrawn = TRUE]
                /\ WithdrawReturn("response")
    /\ UNCHANGED <<chainVars, taskVars, worldVars, lockerVars, minipoolContract,
                   checks, received>>

\* ------------------------------------------------------------------ StateLocker
\* part_001:18-22: NewStateLocker; nothing is stored, and the reader has
\* read nothing.
NoUpdate == [call |-> 0, value |-> "nil"]
NewStateLocker ==
    /\ lockerState = NoUpdate
    /\ lockerTotalEffectiveStake = NoUpdate
    /\ updates = 0
    /\ reader = [pc |-> "idle", state |-> NoUpdate, totalEffectiveStake |-> NoUpdate]

\* part_001:24-29: UpdateState(state, totalEffectiveStake), under the lock;
\* each value is tagged with the call that passed it.
UpdateState ==
    /\ updates < MaxUpdates
    /\ updates' = updates + 1
    /\ \E state \in {"s1", "s2"}, totalEffectiveStake \in {"t1", "t2"} :
         /\ lockerState' = [call |-> updates', value |-> state]
         /\ lockerTotalEffectiveStake' = [call |-> updates', value |-> totalEffectiveStake]
    /\ UNCHANGED <<chainVars, taskVars, worldVars, withdrawVars, reader>>

\* part_001:31-35: the reader calls GetState.
GetState ==
    /\ reader.pc \in {"idle", "done"}
    /\ reader' = [pc |-> "gotState", state |-> lockerState,
                  totalEffectiveStake |-> NoUpdate]
    /\ UNCHANGED <<chainVars, taskVars, worldVars, withdrawVars, lockerState,
                   lockerTotalEffectiveStake, updates>>

\* part_001:37-41: the reader calls GetTotalEffectiveRPLStake.
GetTotalEffectiveRPLStake ==
    /\ reader.pc = "gotState"
    /\ reader' = [reader EXCEPT !.pc = "done",
                                !.totalEffectiveStake = lockerTotalEffectiveStake]
    /\ UNCHANGED <<chainVars, taskVars, worldVars, withdrawVars, lockerState,
                   lockerTotalEffectiveStake, updates>>

\* ------------------------------------------------------------------ the specifications
Paths(index) ==
    {GetRewardsTreePath(index), CompressedPath(GetRewardsTreePath(index)),
     GetMinipoolPerformancePath(index),
     CompressedPath(GetMinipoolPerformancePath(index))}

\* newSubmitRewardsTree, part_000:75-87, with nothing on the disk and
\* nothing sent yet.
\* The other programs have not been started.
OthersNotStarted ==
    /\ minipoolContract = [exists |-> FALSE, withdrawalAllowed |-> FALSE,
                           nodeOwner |-> NodeAccount, status |-> "INITIALIZED",
                           nodeDepositExists |-> FALSE]
    /\ WithdrawNotCalled
    /\ NewStateLocker

InitTask ==
    /\ OthersNotStarted
    /\ clients = [rp |-> "default", ec |-> "default"]
    /\ isRunning = FALSE
    /\ runCount = 0
    /\ sel = InitSel
    /\ rewardIndex = 3
    /\ hasSubmitted = FALSE
    /\ files = [p \in Paths(rewardIndex) |-> NoFile]

\* The deployments: an Oracle DAO node with and without a Web3.Storage
\* token, and a node outside the Oracle DAO with and without generate mode.
Deployments ==
    {[trusted |-> TRUE, mode |-> "download", token |-> "token", archive |-> "http://archive"],
     [trusted |-> TRUE, mode |-> "download", token |-> "", archive |-> ""],
     [trusted |-> FALSE, mode |-> "generate", token |-> "", archive |-> "http://archive"],
     [trusted |-> FALSE, mode |-> "download", token |-> "", archive |-> ""]}

\* A chain whose slots are one second long, with two slots in an epoch and
\* an interval of one second; the Merge happened at slot 2 and every third
\* slot after slot 0 is empty.
Init ==
    /\ InitTask
    /\ eth2Config = [GenesisTime |-> 0, SecondsPerSlot |-> 1, SlotsPerEpoch |-> 2,
                     SecondsPerEpoch |-> 2]
    /\ beaconBlocks = [s \in 0 .. MaxSlot |->
                         [exists |-> s = 0 \/ s % 3 # 0,
                          ExecutionBlockNumber |-> IF s >= 2 THEN 100 + s ELSE 0]]
    /\ finalizedEpoch = 0
    /\ startTime = 0
    /\ intervalTime = 1
    /\ latestBlockTime = 0
    /\ \E d \in Deployments :
         /\ nodeTrusted = d.trusted
         /\ cfg = [RewardsTreeMode |-> d.mode, Web3StorageApiToken |-> d.token,
                   ArchiveECUrl |-> d.archive]
    /\ th = [t \in Threads |-> InitThread(IF t = 0 THEN "idle" ELSE "none")]

Next ==
    \/ RunStart
    \/ RunStat
    \/ RunReadFile
    \/ \E t \in Threads : UploadLocal(t)
    \/ \E t \in Threads : UploadPut(t)
    \/ \E t \in Threads : SubmitRewardsSnapshot(t)
    \/ \E t \in Threads : WaitForTransaction(t)
    \/ \E g \in Goroutines : GoStart(g)
    \/ \E g \in Goroutines : GoGenerate(g)
    \/ \E g \in Goroutines : GoWritePerf(g)
    \/ \E g \in Goroutines : GoWriteTree(g)

Spec == Init /\ [][Next]_vars

\* getSnapshotConsensusBlock on its own: the Beacon config, the proposed
\* slots, the slot of the Merge, the finalized epoch and the end time are
\* drawn from bounded sets.
InitWalk ==
    /\ InitTask
    /\ eth2Config \in {[GenesisTime |-> g, SecondsPerSlot |-> s, SlotsPerEpoch |-> e,
                        SecondsPerEpoch |-> s * e] :
                          g \in {0, 1}, s \in {1, 2}, e \in {2, 3}}
    /\ \E proposed \in SUBSET (0 .. MaxSlot), merge \in {0, 2} :
         beaconBlocks = [s \in 0 .. MaxSlot |->
                           [exists |-> s \in proposed,
                            ExecutionBlockNumber |-> IF s >= merge THEN 100 + s ELSE 0]]
    /\ finalizedEpoch \in 0 .. MaxFinalized
    /\ startTime = 0
    /\ intervalTime = 1
    /\ latestBlockTime \in eth2Config.GenesisTime .. eth2Config.GenesisTime + MaxTime
    /\ nodeTrusted = TRUE
    /\ cfg = [RewardsTreeMode |-> "download", Web3StorageApiToken |-> "token",
              ArchiveECUrl |-> ""]
    /\ th = [t \in Threads |-> InitThread(IF t = 0 THEN "snapshot" ELSE "none")]

\* part_000:145: getSnapshotConsensusBlock(endTime) is called; here endTime is
\* the latest block time.
CallGetSnapshotConsensusBlock ==
    /\ th[0].pc = "snapshot"
    /\ \E errAt \in 0 .. 2 :
         LET snap == GetSnapshotConsensusBlock(latestBlockTime, finalizedEpoch, errAt)
         IN  /\ sel' = snap
             /\ th' = [th EXCEPT ![0].pc = IF snap.state = "walking" THEN "walk"
                                           ELSE IF snap.state = "found" THEN "elHeader"
                                           ELSE "returned",
                                 ![0].snapshotBeaconBlock = snap.targetSlot.v]
    /\ UNCHANGED <<chainVars, cfg, clients, otherVars, isRunning, runCount, worldVars>>

SpecWalk == InitWalk /\ [][CallGetSnapshotConsensusBlock]_vars

\* The artifacts a persisted file may hold: any set of networks, each with
\* rewards in one of two scales.
Artifacts ==
    UNION {{[Index |-> 3, ConsensusEndBlock |-> 1, ExecutionEndBlock |-> 1001,
             IntervalsPassed |-> 1,
             MerkleRoot |-> HexEncode(TreeRoot(3, 1, 1001, 1)),
             NetworkRewards |-> [n \in D |-> NetworkRewardsOf(n, scale[n])],
             MinipoolPerformanceFileCID |-> CidOf(Compress(Marshal([Index |-> 3])))] :
                scale \in [D -> {1, 2}]} : D \in SUBSET (0 .. MaxNetwork)}

\* submitRewardsSnapshot on its own: run() on an Oracle DAO node has read a
\* persisted artifact, has uploaded it, and calls submitRewardsSnapshot
\* (part_000:203-223).
InitSubmit ==
    /\ OthersNotStarted
    /\ clients = [rp |-> "default", ec |-> "default"]
    /\ isRunning = FALSE
    /\ runCount = 1
    /\ sel = InitSel
    /\ rewardIndex = 3
    /\ hasSubmitted = FALSE
    /\ eth2Config = [GenesisTime |-> 0, SecondsPerSlot |-> 1, SlotsPerEpoch |-> 2,
                     SecondsPerEpoch |-> 2]
    /\ beaconBlocks = [s \in 0 .. MaxSlot |->
                         [exists |-> TRUE, ExecutionBlockNumber |-> 0]]
    /\ finalizedEpoch = 1
    /\ startTime = 0
    /\ intervalTime = 1
    /\ latestBlockTime = 1
    /\ nodeTrusted = TRUE
    /\ cfg = [RewardsTreeMode |-> "download", Web3StorageApiToken |-> "token",
              ArchiveECUrl |-> ""]
    /\ \E artifact \in Artifacts :
         LET bytes == Marshal(artifact)
         IN  /\ files = [p \in Paths(rewardIndex) |->
                           IF p = GetRewardsTreePath(rewardIndex) THEN FileOf(bytes)
                           ELSE IF p = CompressedPath(GetRewardsTreePath(rewardIndex))
                           THEN FileOf(Compress(bytes))
                           ELSE NoFile]
             /\ th = [t \in Threads |->
                        IF t = 0
                        THEN [InitThread("submit") EXCEPT
                                 !.nodeTrusted = TRUE, !.intervalsPassed = 1,
                                 !.snapshotBeaconBlock = 1, !.elBlockIndex = 1001,
                                 !.currentIndex = rewardIndex,
                                 !.rewardsFile = <<Unmarshal(bytes)>>,
                                 !.wrapperBytes = bytes,
                                 !.cid = CidOf(Compress(bytes)),
                                 !.did = <<"GetELBlockHeaderForTime", "lock", "stat",
                                           "create tree.zst", "put tree">>]
                        ELSE InitThread("none")]

NextSubmit ==
    \/ SubmitRewardsSnapshot(0)
    \/ WaitForTransaction(0)

SpecSubmit == InitSubmit /\ [][NextSubmit]_vars

\* The interval clock on its own: run() on an Oracle DAO node whose contracts
\* record any interval start and duration; the latest block may be earlier
\* than the recorded start (an execution client that lags behind).
InitClock ==
    /\ InitTask
    /\ eth2Config = [GenesisTime |-> 0, SecondsPerSlot |-> 1, SlotsPerEpoch |-> 2,
                     SecondsPerEpoch |-> 2]
    /\ beaconBlocks = [s \in 0 .. MaxSlot |->
                         [exists |-> s = 0 \/ s % 3 # 0,
                          ExecutionBlockNumber |-> IF s >= 2 THEN 100 + s ELSE 0]]
    /\ finalizedEpoch = 0
    /\ startTime \in 0 .. MaxTime + 1
    /\ intervalTime \in {1, 2}
    /\ latestBlockTime = 0
    /\ nodeTrusted = TRUE
    /\ cfg = [RewardsTreeMode |-> "download", Web3StorageApiToken |-> "token",
              ArchiveECUrl |-> ""]
    /\ th = [t \in Threads |-> InitThread(IF t = 0 THEN "idle" ELSE "none")]

SpecClock == InitClock /\ [][RunStart]_vars

\* The task on a chain that has stopped at its last block, with the epoch of
\* that block finalized.
InitLive ==
    /\ InitTask
    /\ eth2Config = [GenesisTime |-> 0, SecondsPerSlot |-> 1, SlotsPerEpoch |-> 2,
                     SecondsPerEpoch |-> 2]
    /\ beaconBlocks = [s \in 0 .. MaxSlot |->
                         [exists |-> s = 0 \/ s % 3 # 0,
                          ExecutionBlockNumber |-> IF s >= 2 THEN 100 + s ELSE 0]]
    /\ finalizedEpoch = MaxFinalized
    /\ startTime = 0
    /\ intervalTime = 1
    /\ latestBlockTime = MaxTime
    /\ \E d \in Deployments :
         /\ nodeTrusted = d.trusted
         /\ cfg = [RewardsTreeMode |-> d.mode, Web3StorageApiToken |-> d.token,
                   ArchiveECUrl |-> d.archive]
    /\ th = [t \in Threads |-> InitThread(IF t = 0 THEN "idle" ELSE "none")]

\* part_000:233-344: a step of the goroutine g.
GoroutineStep(g) ==
    \/ GoStart(g)
    \/ GoGenerate(g)
    \/ GoWritePerf(g)
    \/ GoWriteTree(g)
    \/ UploadLocal(g)
    \/ UploadPut(g)
    \/ SubmitRewardsSnapshot(g)
    \/ WaitForTransaction(g)

\* The Go scheduler runs every goroutine that can run, and every external
\* call returns: a goroutine that can take a step takes one.
Fairness == \A g \in Goroutines : WF_vars(GoroutineStep(g))

SpecLive == InitLive /\ [][Next]_vars /\ Fairness

\* The watchtower task created and never run, on the chain of Init.
WatchtowerNotRun ==
    /\ clients = [rp |-> "default", ec |-> "default"]
    /\ isRunning = FALSE
    /\ runCount = 0
    /\ sel = InitSel
    /\ rewardIndex = 3
    /\ hasSubmitted = FALSE
    /\ files = [p \in Paths(rewardIndex) |-> NoFile]
    /\ eth2Config = [GenesisTime |-> 0, SecondsPerSlot |-> 1, SlotsPerEpoch |-> 2,
                     SecondsPerEpoch |-> 2]
    /\ beaconBlocks = [s \in 0 .. MaxSlot |->
                         [exists |-> s = 0 \/ s % 3 # 0,
                          ExecutionBlockNumber |-> IF s >= 2 THEN 100 + s ELSE 0]]
    /\ finalizedEpoch = 0
    /\ startTime = 0
    /\ intervalTime = 1
    /\ latestBlockTime = 0
    /\ nodeTrusted = TRUE
    /\ cfg = [RewardsTreeMode |-> "download", Web3StorageApiToken |-> "token",
              ArchiveECUrl |-> ""]
    /\ th = [t \in Threads |-> InitThread(IF t = 0 THEN "idle" ELSE "none")]

\* WithdrawMinipool is called once, on any of the minipools.
InitWithdraw ==
    /\ WatchtowerNotRun
    /\ NewStateLocker
    /\ minipoolContract \in Minipools
    /\ WithdrawNotCalled

NextWithdraw ==
    \/ WithdrawStart
    \/ \E c \in Checks : CheckCall(c)
    \/ \E c \in Checks : Receive(c)
    \/ \E c \in Checks : ReceiveError(c)
    \/ SendWithdrawal

SpecWithdraw == InitWithdraw /\ [][NextWithdraw]_vars

\* A StateLocker, its updates and one reader.
InitLocker ==
    /\ WatchtowerNotRun
    /\ minipoolContract = [exists |-> FALSE, withdrawalAllowed |-> FALSE,
                           nodeOwner |-> NodeAccount, status |-> "INITIALIZED",
                           nodeDepositExists |-> FALSE]
    /\ WithdrawNotCalled
    /\ NewStateLocker

NextLocker ==
    \/ UpdateState
    \/ GetState
    \/ GetTotalEffectiveRPLStake

SpecLocker == InitLocker /\ [][NextLocker]_vars

\* ------------------------------------------------------------------ the properties
\* The calls a thread has made.
Did(t) == {th[t].did[i] : i \in DOMAIN th[t].did}
DidAfter(t) == {th'[t].did[i] : i \in DOMAIN th'[t].did}

\* The goroutines that are past the start of the generation (past
\* part_000:234-236) and have not ended.
Generating == {g \in Goroutines : Active(g) /\ th[g].pc # "spawned"}

\* The threads inside uploadFileToWeb3Storage or submitRewardsSnapshot.
UploadPcs == {"uploadPerf", "putPerf", "uploadTree", "putTree"}
SubmitPcs == {"submit", "wait"}
Submitting == {t \in Threads : th[t].pc \in UploadPcs \cup SubmitPcs}

\* A step of run() that touches nothing but the invocation itself: the
\* guard, the disk, the goroutines and the submitted flag are as before.
NothingElseChanges ==
    /\ isRunning' = isRunning
    /\ files' = files
    /\ hasSubmitted' = hasSubmitted
    /\ \A g \in Goroutines : th'[g] = th[g]

\* The errors run() returns when a call to the chain fails on the fast path.
CallErrors ==
    {"error: account or membership", "error: interval clock",
     "error: beacon config or head", "error: getting beacon block",
     "error: execution header", "error: reward index"}

\* The error of part_000:509-510.
NotFinalizedError == "error: waiting until epoch is finalized"

\* C1: at most one background generation is active at any time: no reachable
\* state has two goroutines both past the start of the generation.
C1_AtMostOneGeneration == Cardinality(Generating) <= 1

\* C2: a run() that begins while a generation spawned by an earlier run() has
\* not finished (its goroutine may not have executed its first statement) is a
\* no-op: it returns, nil unless it stopped before the guard, without passing
\* the guard, spawning, writing, uploading or sending.
C2_RunDuringGenerationIsNoOp ==
    sel.beganWhileActive =>
        /\ th[0].pc = "returned"
        /\ th[0].ret \in {"nil", NotFinalizedError} \cup CallErrors
        /\ Did(0) \subseteq {"GetELBlockHeaderForTime", "HeaderByNumber", "lock"}

\* C3: every failure inside the goroutine goes through handleError and leaves
\* isRunning false: a step in which a goroutine ends with an error ends with
\* the guard released.
C3_FailureReleasesGuard ==
    [][\A g \in Goroutines :
          (Active(g) /\ th'[g].pc = "failed") => ~isRunning']_vars

\* A goroutine has failed and a later run() has started a generation again.
C3_Witness ==
    \E g, h \in Goroutines :
        g < h /\ th[g].pc = "failed" /\ th[h].pc = "generate" /\ isRunning

\* A step that is an invocation of run(): part_000:93-177.
RunBegins == runCount' = runCount + 1

\* The invocation got as far as computing intervalsPassed.
ComputedIntervals(ret) == ret \notin {"error: account or membership", "error: interval clock"}

\* C4: whenever intervalsPassed is 0, run() returns nil without taking the
\* lock, without selecting a snapshot block, without spawning, and without
\* changing isRunning, a file, uploading or sending a transaction.
C4_NoIntervalNoEffect ==
    [][(/\ RunBegins
        /\ Eligible(nodeTrusted, cfg.RewardsTreeMode)
        /\ ComputedIntervals(th'[0].ret)
        /\ TruncDiv(latestBlockTime' - startTime, intervalTime) = 0)
       => /\ th'[0].pc = "returned"
          /\ th'[0].ret = "nil"
          /\ th'[0].did = <<>>
          /\ ~sel'.called
          /\ NothingElseChanges]_vars

\* run() has returned nil on an eligible node because no interval has passed.
C4_Witness ==
    /\ runCount > 0
    /\ Eligible(nodeTrusted, cfg.RewardsTreeMode)
    /\ latestBlockTime - startTime < intervalTime
    /\ th[0].pc = "returned" /\ th[0].ret = "nil" /\ ~sel.called

\* C5: when the required epoch (target epoch + 1) is greater than the
\* finalized epoch, getSnapshotConsensusBlock fails with the not-finalized
\* condition without querying a block, and run() creates no file, spawns no
\* generation, uploads nothing and sends nothing.  (The chain state is known
\* once the Beacon config and head have been read.)
C5_NotFinalizedStops ==
    [][(/\ RunBegins
        /\ sel'.called
        /\ th'[0].ret # "error: beacon config or head"
        /\ sel'.targetSlotEpoch + 1 > sel'.seenFinalizedEpoch)
       => /\ sel'.state = "not finalized"
          /\ sel'.blockQueries = 0
          /\ th'[0].pc = "returned"
          /\ th'[0].ret = NotFinalizedError
          /\ th'[0].did = <<>>
          /\ NothingElseChanges]_vars

\* run() has stopped because the required epoch was not finalized.
C5_Witness ==
    /\ sel.called /\ sel.state = "not finalized"
    /\ sel.requiredEpoch > sel.seenFinalizedEpoch
    /\ th[0].pc = "returned" /\ sel.blockQueries = 0

\* C6: the two expected waits are not errors: run() returns nil when the
\* interval has not elapsed and when the required epoch is not finalized.
C6_ExpectedWaitsReturnNil ==
    (/\ th[0].pc = "returned"
     /\ runCount > 0
     /\ Eligible(nodeTrusted, cfg.RewardsTreeMode)
     /\ \/ latestBlockTime - startTime < intervalTime
        \/ sel.state = "not finalized")
    => th[0].ret \in {"nil"} \cup CallErrors

\* C7: with the artifact file of the interval on the disk and the submitted
\* flag set, run() on a trusted node returns nil (an error when the flag
\* cannot be read) and uploads nothing, sends nothing, spawns nothing and
\* leaves the file alone.
C7_SubmittedFileIsLeftAlone ==
    [][(/\ th[0].pc = "stat"
        /\ th'[0] # th[0]
        /\ files[GetRewardsTreePath(th[0].currentIndex)].exists
        /\ th[0].nodeTrusted
        /\ hasSubmitted)
       => /\ th'[0].pc = "returned"
          /\ th'[0].ret \in {"nil", "error: checking if submission was processed"}
          /\ th'[0].did = Append(th[0].did, "stat")
          /\ NothingElseChanges]_vars

\* run() has found the file and the flag, and has returned nil.
C7_Witness ==
    /\ th[0].pc = "returned" /\ th[0].ret = "nil"
    /\ th[0].nodeTrusted /\ hasSubmitted
    /\ FileExists(th[0].currentIndex)
    /\ Len(th[0].did) > 0 /\ th[0].did[Len(th[0].did)] = "stat"

\* The artifact file of the interval run() works on.
TreePath == GetRewardsTreePath(th[0].currentIndex)

\* C8: with the artifact file of the interval on the disk and the submitted
\* flag not set, run() on a trusted node hands the stored bytes to the upload,
\* compresses those bytes for it, and submits the Merkle root read from the
\* file; it never calls GenerateTree and never writes the uncompressed file.
C8_ResumeUsesStoredFile ==
    [][/\ (th[0].pc = "readFile" /\ th'[0].pc = "uploadTree")
          => /\ th'[0].wrapperBytes = files[TreePath].bytes
             /\ th'[0].rewardsFile = <<Unmarshal(files[TreePath].bytes)>>
       /\ (th[0].pc = "uploadTree" /\ th'[0].pc = "putTree")
          => files'[CompressedPath(TreePath)].bytes = Compress(th[0].wrapperBytes)
       /\ (th[0].pc = "submit" /\ th'[0].pc = "wait")
          => HexEncode(th'[0].submission[1].MerkleRoot)
                 = Unmarshal(th[0].wrapperBytes).MerkleRoot
       /\ (th'[0] # th[0] /\ th[0].pc \in {"readFile"} \cup UploadPcs \cup SubmitPcs)
          => /\ files'[TreePath] = files[TreePath]
             /\ DidAfter(0) \cap {"GenerateTree", "write tree", "write perf", "go"} = {}
             /\ \A g \in Goroutines : th'[g] = th[g]]_vars

\* run() has read the stored file, uploaded it and sent the submission.
C8_Witness ==
    /\ th[0].pc = "wait"
    /\ th[0].wrapperBytes = files[TreePath].bytes
    /\ HexEncode(th[0].submission[1].MerkleRoot) = Unmarshal(files[TreePath].bytes).MerkleRoot

\* C9: at most one submission (upload and transaction) is in progress at any
\* time: no reachable state has two threads inside uploadFileToWeb3Storage or
\* submitRewardsSnapshot.
C9_AtMostOneSubmission == Cardinality(Submitting) <= 1

\* The proposed slots at or below the last slot of the target epoch.
ProposedUpTo(slot) ==
    {s \in 0 .. slot : s \in DOMAIN beaconBlocks /\ beaconBlocks[s].exists}
Highest(S) == CHOOSE s \in S : \A r \in S : r <= s

FirstAbsent(networkRewards) ==
    CHOOSE k \in 0 .. MaxNetwork + 1 :
        /\ k \notin DOMAIN networkRewards
        /\ \A n \in 0 .. k - 1 : n \in DOMAIN networkRewards

\* C11: the three reward arrays of a submission all have length k, the
\* smallest network id absent from the artifact's NetworkRewards, and
\* position i holds the values of network i, in ascending order.
C11_ArraysAreDenseAndContiguous ==
    \A t \in Threads :
        th[t].pc = "wait" =>
            LET sub == th[t].submission[1]
                nr == th[t].rewardsFile[1].NetworkRewards
                k == FirstAbsent(nr)
            IN  /\ Len(sub.NodeRPL) = k
                /\ Len(sub.TrustedNodeRPL) = k
                /\ Len(sub.NodeETH) = k
                /\ \A n \in 0 .. k - 1 :
                      /\ sub.NodeRPL[n + 1] = nr[n].CollateralRpl
                      /\ sub.TrustedNodeRPL[n + 1] = nr[n].OracleDaoRpl
                      /\ sub.NodeETH[n + 1] = nr[n].SmoothingPoolEth

\* Networks 0, 1 and 2 are defined and 3 is not: the arrays have length 3.
C11_Witness ==
    /\ th[0].pc = "wait"
    /\ DOMAIN th[0].rewardsFile[1].NetworkRewards = {0, 1, 2}
    /\ Len(th[0].submission[1].NodeRPL) = 3
    /\ Len(th[0].submission[1].TrustedNodeRPL) = 3
    /\ Len(th[0].submission[1].NodeETH) = 3

\* The number of times a thread has sent a submission transaction.
SentBy(t) == Cardinality({i \in DOMAIN th[t].did : th[t].did[i] = "send tx"})

\* C12: when n > 1 intervals have passed at the invocation of run() and no
\* artifact file is there, the generation it spawns carries n, sends at most
\* one submission transaction, and that transaction's IntervalsPassed is n.
C12_MultiIntervalCollapse ==
    [][\A g \in Goroutines :
          /\ (th[g].pc = "none" /\ th'[g].pc = "spawned")
             => th'[g].intervalsPassed = (latestBlockTime - startTime) \div intervalTime
          /\ (th[g].pc = "submit" /\ th'[g].pc = "wait")
             => /\ th'[g].submission[1].IntervalsPassed = th[g].intervalsPassed
                /\ SentBy(g) = 0
          /\ th[g].pc = "wait" => th'[g].pc \in {"wait", "done", "failed"}]_vars

\* A generation spawned when two intervals had passed has sent its one
\* submission, which carries 2.
C12_Witness ==
    \E g \in Goroutines :
        /\ th[g].pc = "wait"
        /\ th[g].intervalsPassed = 2
        /\ th[g].submission[1].IntervalsPassed = 2
        /\ SentBy(g) = 1

\* The step in which submitRewardsSnapshot returns nil at part_000:416-418.
GasDeclined(t) ==
    /\ th[t].pc = "submit"
    /\ IF t = 0 THEN "gas declined" \in DidAfter(0) ELSE th'[t].pc = "done"

\* C13: when the gas check declines, submitRewardsSnapshot sends no
\* transaction and reports no failure; the generation ends with isRunning
\* false and the submitted flag is as it was.
C13_GasDeclinedIsNotAFailure ==
    [][\A t \in Threads :
          GasDeclined(t)
          => /\ "send tx" \notin DidAfter(t)
             /\ th'[t].submission = <<>>
             /\ hasSubmitted' = hasSubmitted
             /\ files' = files
             /\ IF t = 0 THEN th'[0].pc = "returned" /\ th'[0].ret = "nil"
                         ELSE th'[t].pc = "done" /\ ~isRunning']_vars

\* A generation on an Oracle DAO node has ended without an error and without
\* a mined submission: its gas check declined.
C13_Witness ==
    /\ nodeTrusted /\ ~hasSubmitted /\ ~isRunning
    /\ \E g \in Goroutines : th[g].pc = "done"
    /\ \A g \in Goroutines : th[g].pc \in {"none", "done"}

\* The artifact file of the interval.
ArtifactPath == GetRewardsTreePath(rewardIndex)

\* A step in which an upload by goroutine g fails, from one of the places pcs.
UploadFails(g, pcs) == th[g].pc \in pcs /\ th'[g].pc = "failed"

\* A step of run() that looks for the artifact file and finds it takes the
\* resume path: it reads the file next, or returns; it spawns nothing.
StatResumes ==
    (th[0].pc = "stat" /\ th'[0] # th[0] /\ files[ArtifactPath].exists)
    => /\ th'[0].pc \in {"readFile", "returned"}
       /\ "go" \notin DidAfter(0)
       /\ \A g \in Goroutines : th'[g] = th[g]

\* C14, as claimed: after an upload failure of the generation on an Oracle
\* DAO node, of the performance file or of the artifact, the guard is
\* released and the artifact file is there, so that the next run() takes the
\* resume path and does not generate again.
C14_UploadFailureLeadsToResume ==
    [][/\ \A g \in Goroutines :
            UploadFails(g, UploadPcs)
            => ~isRunning' /\ files'[ArtifactPath].exists
       /\ StatResumes]_vars

\* C14, amended: it holds for a failed upload of the artifact; a failed
\* upload of the performance file releases the guard and leaves no artifact
\* file this generation wrote.
C14_TreeUploadFailureLeadsToResume ==
    [][/\ \A g \in Goroutines :
            /\ UploadFails(g, {"uploadTree", "putTree"})
               => ~isRunning' /\ files'[ArtifactPath].exists
            /\ UploadFails(g, {"uploadPerf", "putPerf"})
               => ~isRunning' /\ files'[ArtifactPath] = files[ArtifactPath]
       /\ StatResumes]_vars

\* The artifact upload of a generation has failed and the next run() has found
\* the file and is reading it.
C14_Witness ==
    /\ th[0].pc = "readFile"
    /\ \E g \in Goroutines : th[g].pc = "failed"
    /\ \A g \in Goroutines : th[g].pc \in {"none", "failed"}
    /\ files[ArtifactPath].exists
    /\ files[CompressedPath(ArtifactPath)].exists

\* C15: the invoker of run() is never inside a storage upload or a wait for a
\* transaction; they all happen on the goroutine.
C15_InvokerNeverBlocks == th[0].pc \notin UploadPcs \cup SubmitPcs

\* C16: the artifact file of an interval is written at most once, and
\* GenerateTree is never called while the file exists.
C16_ArtifactWrittenOnce ==
    [][\A g \in Goroutines :
          /\ (th[g].pc = "writeTree" /\ files'[ArtifactPath] # files[ArtifactPath])
             => ~files[ArtifactPath].exists
          /\ (th[g].pc = "generate" /\ th'[g].pc = "writePerf")
             => ~files[ArtifactPath].exists]_vars

\* C17: every submission sent carries the consensus block, the execution
\* block and the number of intervals the artifact was built with.
C17_SubmissionMatchesArtifact ==
    \A t \in Threads :
        th[t].pc = "wait" =>
            /\ th[t].submission[1].ConsensusBlock = th[t].rewardsFile[1].ConsensusEndBlock
            /\ th[t].submission[1].ExecutionBlock = th[t].rewardsFile[1].ExecutionEndBlock
            /\ th[t].submission[1].IntervalsPassed = th[t].rewardsFile[1].IntervalsPassed

\* The compressed files of the interval.
CompressedPaths ==
    {CompressedPath(ArtifactPath),
     CompressedPath(GetMinipoolPerformancePath(rewardIndex))}

\* C18: a node outside the Oracle DAO never uploads and never sends a
\* submission: its generation only writes the performance file and the
\* artifact, and when the artifact file exists run() returns nil and does
\* nothing else.
C18_OnlyOracleDaoPublishes ==
    [][~nodeTrusted =>
          /\ \A t \in Threads : th'[t].pc \notin UploadPcs \cup SubmitPcs
          /\ \A p \in CompressedPaths : ~files'[p].exists
          /\ ~hasSubmitted'
          /\ (th[0].pc = "stat" /\ th'[0] # th[0] /\ files[ArtifactPath].exists)
             => /\ th'[0].pc = "returned" /\ th'[0].ret = "nil"
                /\ th'[0].did = Append(th[0].did, "stat")
                /\ NothingElseChanges]_vars

\* A node outside the Oracle DAO has generated and written both files, and a
\* later run() has found the artifact file and returned nil.
C18_Witness ==
    /\ ~nodeTrusted
    /\ \E g \in Goroutines : th[g].pc = "done"
    /\ files[ArtifactPath].exists
    /\ files[GetMinipoolPerformancePath(rewardIndex)].exists
    /\ th[0].pc = "returned" /\ th[0].ret = "nil"
    /\ Len(th[0].did) > 0 /\ th[0].did[Len(th[0].did)] = "stat"

\* C19: without a Web3.Storage token the upload returns an error before a
\* compressed file is created and before anything is uploaded or sent; the
\* files on the disk are as they were, and the goroutine clears isRunning.
C19_MissingTokenAborts ==
    [][cfg.Web3StorageApiToken = "" =>
          /\ \A t \in Threads :
                (th[t].pc \in {"uploadPerf", "uploadTree"} /\ th'[t] # th[t])
                => /\ files' = files
                   /\ hasSubmitted' = hasSubmitted
                   /\ IF t = 0
                      THEN /\ th'[0].pc = "returned"
                           /\ th'[0].ret = "error: no Web3.Storage API token"
                      ELSE th'[t].pc = "failed" /\ ~isRunning'
          /\ \A t \in Threads : th'[t].pc \notin {"putPerf", "putTree"} \cup SubmitPcs
          /\ \A p \in CompressedPaths : ~files'[p].exists]_vars

\* An Oracle DAO node without a token: the generation has written the
\* performance file and has failed at the upload; no compressed file is
\* there and the guard is released.
C19_Witness ==
    /\ nodeTrusted /\ cfg.Web3StorageApiToken = ""
    /\ \E g \in Goroutines : th[g].pc = "failed"
    /\ \A g \in Goroutines : th[g].pc \in {"none", "failed"}
    /\ files[GetMinipoolPerformancePath(rewardIndex)].exists
    /\ \A p \in CompressedPaths : ~files[p].exists
    /\ ~isRunning

\* The epoch of the slot at the end time, computed from the Beacon config.
NominalEndEpoch ==
    CeilDiv(sel.endTime - eth2Config.GenesisTime, eth2Config.SecondsPerSlot)
        \div eth2Config.SlotsPerEpoch

\* C20: whenever getSnapshotConsensusBlock succeeds, the finalized epoch is at
\* least the target epoch + 1, and the returned time is genesis +
\* (target epoch + 1) * epoch duration, however many slots the walk skipped.
C20_ReferenceTimeIsOneEpochLater ==
    sel.state = "found" =>
        /\ sel.seenFinalizedEpoch >= NominalEndEpoch + 1
        /\ sel.blockTime = eth2Config.GenesisTime
                               + (NominalEndEpoch + 1) * eth2Config.SecondsPerEpoch

\* The walk has skipped slots and the returned time is still that of the
\* epoch after the target epoch.
C20_Witness ==
    /\ sel.state = "found"
    /\ sel.skips >= 2
    /\ NominalEndEpoch >= 1
    /\ sel.blockTime = eth2Config.GenesisTime
                           + (NominalEndEpoch + 1) * eth2Config.SecondsPerEpoch

\* C21: run() goes past the interval clock only when a whole interval has
\* elapsed (latest block time >= start + duration), with intervalsPassed >= 1
\* and endTime = start + duration * intervalsPassed; it does not when the
\* latest block is earlier than the interval start.
C21_ProceedsOnlyAfterAnInterval ==
    sel.called =>
        /\ latestBlockTime >= startTime + intervalTime
        /\ th[0].intervalsPassed >= 1
        /\ (th[0].ret # "error: beacon config or head")
           => sel.endTime = startTime + intervalTime * th[0].intervalsPassed

\* The slot at the end time: the least number of whole slots that cover the
\* time from genesis to the end time.
SlotAtEndTime ==
    CHOOSE n \in 0 .. MaxTime + 1 :
        /\ n * eth2Config.SecondsPerSlot >= sel.endTime - eth2Config.GenesisTime
        /\ \A m \in 0 .. n - 1 :
              m * eth2Config.SecondsPerSlot < sel.endTime - eth2Config.GenesisTime

\* C22: for every end time at or after genesis, the first target slot of the
\* walk is the last slot of the epoch that holds the slot
\* ceil((endTime - genesis) / secondsPerSlot), and finality is required of the
\* epoch after it.
C22_TargetIsLastSlotOfEpoch ==
    (sel.called /\ sel.endTime >= eth2Config.GenesisTime) =>
        LET targetEpoch == SlotAtEndTime \div eth2Config.SlotsPerEpoch
        IN  /\ sel.targetSlotEpoch = targetEpoch
            /\ sel.firstTargetSlot =
                   targetEpoch * eth2Config.SlotsPerEpoch + eth2Config.SlotsPerEpoch - 1
            /\ sel.requiredEpoch = targetEpoch + 1
            /\ sel.state = "not finalized" <=> sel.seenFinalizedEpoch < targetEpoch + 1

\* An end time at the first slot of epoch 1 of two slots: the target is the
\* last slot of epoch 1 and epoch 2 must be finalized.
C22_Witness ==
    /\ sel.called
    /\ eth2Config.SlotsPerEpoch = 2
    /\ SlotAtEndTime = 2
    /\ sel.firstTargetSlot = 3
    /\ sel.requiredEpoch = 2
    /\ sel.state # "not finalized"

\* The selection ran with finality satisfied and no failed query.
WalkRan ==
    /\ sel.called
    /\ sel.seenFinalizedEpoch >= sel.requiredEpoch
    /\ sel.state # "error"

\* C23: the walk ends when a slot at or below the first target slot has a
\* block and the queries succeed; when no slot down to slot 0 has one, it does
\* not fail at slot 0: the unsigned slot wraps below 0 and the queries go on;
\* the only error of the walk is a failed query.
C23_WalkWrapsBelowSlotZero ==
    /\ (sel.called /\ sel.state = "error")
       => /\ sel.blockQueries = sel.skips + 1
          /\ ~sel.targetSlot.wrapped
    /\ (WalkRan /\ ProposedUpTo(sel.firstTargetSlot) # {})
       => /\ sel.state = "found"
          /\ ~sel.targetSlot.wrapped
          /\ sel.blockQueries <= sel.firstTargetSlot + 1
    /\ (WalkRan /\ ProposedUpTo(sel.firstTargetSlot) = {})
       => /\ sel.state = "walking"
          /\ sel.targetSlot.wrapped
          /\ sel.blockQueries > sel.firstTargetSlot + 1

\* No slot from the target down to slot 0 has a block: the walk has gone on
\* below slot 0.
C23_Witness ==
    /\ WalkRan
    /\ ProposedUpTo(sel.firstTargetSlot) = {}
    /\ sel.state = "walking"
    /\ sel.targetSlot.wrapped
    /\ sel.blockQueries = sel.firstTargetSlot + 1 + MaxWrapSteps

\* The slots the walk has passed as empty before its last query.
SkippedSlots(s) ==
    {slot \in 0 .. s.firstTargetSlot : slot > s.firstTargetSlot - s.skips}

\* C24: a block query that fails during the walk ends the selection with an
\* error and the slot is not passed as an empty one: every slot a walk has
\* passed was answered to have no block; a run() whose walk ended in an error
\* returns that error, leaves isRunning, the files and the goroutines as they
\* were and spawns nothing.
C24_FailedQueryAbortsSelection ==
    [][RunBegins =>
         /\ (sel'.state = "error" /\ sel'.blockQueries >= 1)
            => /\ th'[0].pc = "returned"
               /\ th'[0].ret = "error: getting beacon block"
               /\ th'[0].did = <<>>
               /\ sel'.skips = sel'.blockQueries - 1
               /\ \A slot \in SkippedSlots(sel') : ~GetBeaconBlock(U64(slot)).exists
               /\ NothingElseChanges
         /\ (sel'.called /\ sel'.state \in {"found", "walking"})
            => \A slot \in SkippedSlots(sel') : ~GetBeaconBlock(U64(slot)).exists
    ]_vars

\* The second query of a walk failed, after one empty slot.
C24_Witness ==
    /\ sel.state = "error"
    /\ sel.blockQueries = 2
    /\ sel.skips = 1
    /\ th[0].ret = "error: getting beacon block"

\* The two lookups of an execution block.
ElCalls == {"GetELBlockHeaderForTime", "HeaderByNumber"}

\* C25: when the selected consensus block carries a non-zero execution block
\* number run() fetches the execution block by that number and does not call
\* the timestamp resolver; it calls the resolver, with the reference
\* timestamp, exactly when the number is 0; when the lookup fails run() returns
\* the error before the guard check and nothing is spawned.
C25_ExecutionReferenceResolution ==
    [][(RunBegins /\ sel'.state = "found") =>
         /\ Len(th'[0].did) >= 1
         /\ \A i \in DOMAIN th'[0].did : th'[0].did[i] \in ElCalls <=> i = 1
         /\ th'[0].did[1] = "HeaderByNumber" <=> sel'.ExecutionBlockNumber # 0
         /\ th'[0].did[1] = "GetELBlockHeaderForTime" <=> sel'.ExecutionBlockNumber = 0
         /\ (th'[0].ret \notin {"error: execution header", "error: reward index"})
            => th'[0].elBlockIndex =
                 IF sel'.ExecutionBlockNumber # 0
                 THEN sel'.ExecutionBlockNumber
                 ELSE GetELBlockHeaderForTime(sel'.blockTime)
         /\ (th'[0].ret = "error: execution header")
            => /\ th'[0].pc = "returned"
               /\ th'[0].did = <<ElCall(sel'.ExecutionBlockNumber)>>
               /\ NothingElseChanges
    ]_vars

\* run() is past the guard with an execution block fetched by the number the
\* consensus block carries.
C25_Witness ==
    /\ th[0].pc = "stat"
    /\ sel.state = "found"
    /\ sel.ExecutionBlockNumber # 0
    /\ th[0].did[1] = "HeaderByNumber"
    /\ th[0].elBlockIndex = sel.ExecutionBlockNumber

\* Thread t has done a and, later, b.
Before(t, a, b) ==
    \E i, j \in DOMAIN th[t].did :
        i < j /\ th[t].did[i] = a /\ th[t].did[j] = b

\* The files of the interval a thread works on.
PerfPath(t) == GetMinipoolPerformancePath(th[t].currentIndex)
WrapperPath(t) == GetRewardsTreePath(th[t].currentIndex)

\* C26: local durability precedes network durability: a thread about to put
\* a payload to Web3.Storage has created the compressed file of that payload;
\* the performance file is on the disk, written by the thread, before its
\* upload is begun; the artifact file is on the disk (written by the goroutine,
\* or found by run()) before the artifact upload is begun and while a
\* submission is prepared or sent.
C26_LocalBeforeNetwork ==
    \A t \in Threads :
        /\ th[t].pc \in {"uploadPerf", "putPerf"}
           => /\ files[PerfPath(t)].exists
              /\ "write perf" \in Did(t)
              /\ "put perf" \notin Did(t)
        /\ th[t].pc = "putPerf"
           => /\ files[CompressedPath(PerfPath(t))].exists
              /\ Before(t, "write perf", "create perf.zst")
        /\ "put perf" \in Did(t) => Before(t, "create perf.zst", "put perf")
        /\ th[t].pc \in {"uploadTree", "putTree", "submit", "wait"}
           => /\ files[WrapperPath(t)].exists
              /\ IF t = 0 THEN "stat" \in Did(t) ELSE "write tree" \in Did(t)
        /\ th[t].pc \in {"uploadTree", "putTree"}
           => "put tree" \notin Did(t) /\ "send tx" \notin Did(t)
        /\ th[t].pc = "putTree"
           => /\ files[CompressedPath(WrapperPath(t))].exists
              /\ t # 0 => Before(t, "write tree", "create tree.zst")
        /\ "put tree" \in Did(t) => Before(t, "create tree.zst", "put tree")
        /\ ("send tx" \in Did(t) /\ t # 0) => Before(t, "write tree", "send tx")

\* A goroutine has written, compressed and uploaded both files and has sent
\* the submission.
C26_Witness ==
    \E g \in Goroutines :
        /\ th[g].pc = "wait"
        /\ Before(g, "write perf", "create perf.zst")
        /\ Before(g, "create perf.zst", "put perf")
        /\ Before(g, "write tree", "create tree.zst")
        /\ Before(g, "create tree.zst", "put tree")
        /\ Before(g, "put tree", "send tx")

\* C27: a submission transaction is sent only after the artifact upload has
\* returned a content identifier, and it carries that identifier; when the
\* upload fails the run sends no transaction, on the resume path (thread 0) and
\* in the generation alike.
C27_PublishThenSubmit ==
    [][\A t \in Threads :
         /\ (th[t].pc = "putTree" /\ th'[t].pc = "submit")
            => /\ th'[t].cid = CidOf(files[CompressedPath(WrapperPath(t))].bytes)
               /\ th'[t].cid # NoCid
               /\ th'[t].submission = <<>>
         /\ (th[t].pc = "submit" /\ th'[t].pc = "wait")
            => /\ Before(t, "create tree.zst", "put tree")
               /\ th[t].cid # NoCid
               /\ th'[t].submission[1].MerkleTreeCID = th[t].cid
               /\ "send tx" \notin Did(t)
         /\ "send tx" \in DidAfter(t) => "put tree" \in DidAfter(t)
         /\ (th[t].pc \in {"uploadTree", "putTree"}
                /\ th'[t].pc \notin {"uploadTree", "putTree", "submit"})
            => /\ th'[t].pc = IF t = 0 THEN "returned" ELSE "failed"
               /\ t = 0 => /\ th'[t].ret \in {"error: no Web3.Storage API token",
                                              "error: creating compressed file",
                                              "error: writing compressed file",
                                              "error: uploading"}
                           /\ "send tx" \notin DidAfter(t)
               /\ th'[t].submission = <<>>
               /\ hasSubmitted' = hasSubmitted
    ]_vars

\* run() resumed from the stored file, uploaded it and has sent the
\* transaction with the identifier the upload returned.
C27_Witness ==
    /\ th[0].pc = "wait"
    /\ Before(0, "stat", "put tree")
    /\ Before(0, "put tree", "send tx")
    /\ th[0].cid # NoCid
    /\ th[0].submission[1].MerkleTreeCID = th[0].cid

\* C30: on a node that is not in the Oracle DAO and is not in generate mode,
\* a run() that got past the account and membership lookups returns nil
\* before the interval clock is read: no selection, no lock, no spawn, and
\* isRunning, the files, the submitted flag and the goroutines are as before;
\* such a node never has a goroutine, a file or a transaction.
C30_IneligibleNodeDoesNothing ==
    [][(/\ RunBegins
        /\ ~nodeTrusted
        /\ cfg.RewardsTreeMode # "generate"
        /\ th'[0].ret # "error: account or membership")
       => /\ th'[0].pc = "returned"
          /\ th'[0].ret = "nil"
          /\ th'[0].did = <<>>
          /\ th'[0].intervalsPassed = 0
          /\ th'[0].submission = <<>>
          /\ ~sel'.called
          /\ NothingElseChanges
          /\ ~isRunning'
          /\ ~hasSubmitted'
          /\ \A g \in Goroutines : th'[g].pc = "none"
          /\ \A p \in DOMAIN files : ~files'[p].exists
    ]_vars

\* Such a node has been run twice, on a chain on which an interval has
\* passed and the epoch is finalized, and has returned nil.
C30_Witness ==
    /\ ~nodeTrusted
    /\ cfg.RewardsTreeMode = "download"
    /\ runCount = 2
    /\ latestBlockTime >= startTime + intervalTime
    /\ th[0].pc = "returned"
    /\ th[0].ret = "nil"

\* C29: the clients of the task are never reassigned; the archive client is
\* held only by a generation that dialed it; the gas estimate and the
\* transaction of every run, of that generation too, go through the default
\* client.
C29_ArchiveClientStaysInItsRun ==
    /\ clients = [rp |-> "default", ec |-> "default"]
    /\ th[0].rp = "default"
    /\ \A t \in Threads :
          /\ th[t].txClient \in {"none", "default"}
          /\ "send tx" \in Did(t) => th[t].txClient = "default"
          /\ th[t].rp = "archive"
             => /\ t \in Goroutines
                /\ UsesArchive
                /\ Before(t, "dial", "GenerateTree")
          /\ (UsesArchive /\ Active(t) /\ "GenerateTree" \in Did(t))
             => th[t].rp = "archive"

\* A generation that built the tree through the archive client has sent its
\* transaction through the default one.
C29_Witness ==
    \E g \in Goroutines :
        /\ th[g].pc = "wait"
        /\ th[g].rp = "archive"
        /\ Before(g, "GenerateTree", "send tx")
        /\ th[g].txClient = "default"

\* A goroutine ends in this step.
Exits(g) == Active(g) /\ th'[g].pc \in {"done", "failed"}

\* C28: when every goroutine that can take a step takes one and every call
\* returns, isRunning = TRUE leads to isRunning = FALSE, and no goroutine
\* ends, on success, on a declined submission or on a failure, with isRunning
\* still TRUE.
C28_RunningIsEventuallyCleared ==
    /\ isRunning ~> ~isRunning
    /\ [][\A g \in Goroutines : Exits(g) => ~isRunning']_vars

\* A generation has started, has submitted and has ended, and isRunning is
\* cleared.
C28_Witness ==
    /\ ~isRunning
    /\ hasSubmitted
    /\ \E g \in Goroutines : th[g].pc = "done"

\* The errors run() returns before the upload of the resume path and before
\* the goroutine is started.
FastPathErrors ==
    CallErrors \cup
    {NotFinalizedError, "error: checking if submission was processed",
     "error: reading rewards tree file", "error: deserializing rewards tree file"}

\* What the upload and the submission add to the log of a thread.
PublishingCalls == {"create tree.zst", "put tree", "gas declined", "send tx"}

\* C31: a run() that returns an error on its fast path leaves isRunning, the
\* files, the submitted flag and every goroutine as they were and starts no
\* goroutine, and run() can be invoked again; a stored artifact that does not
\* deserialize makes run() return an error with no upload, no transaction and
\* the file as it was.
C31_FastPathErrorsHaveNoEffect ==
    [][/\ ((RunBegins \/ th[0].pc \in {"stat", "readFile"})
           /\ th'[0].pc = "returned"
           /\ th'[0].ret \in FastPathErrors)
          => /\ NothingElseChanges
             /\ "go" \notin DidAfter(0)
             /\ DidAfter(0) \cap PublishingCalls = {}
             /\ th'[0].submission = <<>>
       /\ (th[0].pc = "readFile"
           /\ th'[0] # th[0]
           /\ files[GetRewardsTreePath(th[0].currentIndex)].bytes = NoBytes)
          => /\ th'[0].pc = "returned"
             /\ th'[0].ret \in {"error: reading rewards tree file",
                                "error: deserializing rewards tree file"}
             /\ DidAfter(0) \cap PublishingCalls = {}
             /\ NothingElseChanges
    ]_vars

\* run() has found an artifact file that does not deserialize and has
\* returned the error, with no generation running.
C31_Witness ==
    /\ th[0].pc = "returned"
    /\ th[0].ret = "error: deserializing rewards tree file"
    /\ files[GetRewardsTreePath(rewardIndex)] = FileOf(NoBytes)
    /\ "go" \notin Did(0)
    /\ ~isRunning

\* What the contracts say of the four checks of a withdrawal.
ChecksPass ==
    /\ minipoolContract.withdrawalAllowed
    /\ minipoolContract.nodeOwner = NodeAccount
    /\ minipoolContract.status \in {"INITIALIZED", "WITHDRAWN", "TIMED_OUT"}
    /\ minipoolContract.nodeDepositExists

\* C32: WithdrawMinipool sends the withdrawal transaction only when the
\* minipool contract exists and the four values have been received and pass
\* (withdrawals enabled, the node is the owner, the status is INITIALIZED,
\* WITHDRAWN or TIMED_OUT, the node deposit exists); when a check reports an
\* error or fails no transaction is sent and Success stays false.
C32_WithdrawalOnlyAfterFourPassedChecks ==
    /\ txSent \in {0, 1}
    /\ txSent = 1
       => /\ minipoolContract.exists
          /\ received = 4
          /\ \A c \in Checks : checks[c] = [pc |-> "done", err |-> FALSE]
          /\ ChecksPass
          /\ ~response.WithdrawalsDisabled
          /\ response.NodeOwner = minipoolContract.nodeOwner
          /\ response.Status = minipoolContract.status
          /\ ~response.NodeDepositDidNotExist
    /\ response.Success => txSent = 1
    /\ ((\E c \in Checks : checks[c].err) \/ ~ChecksPass \/ ~minipoolContract.exists)
       => txSent = 0 /\ ~response.Success

\* The four checks passed, the transaction was sent and the response says so.
C32_Witness ==
    /\ txSent = 1
    /\ response.Success
    /\ withdrawRet = "response"
    /\ received = 4

\* The status goroutines that are at a send on an unbuffered channel.
Sending == {c \in Checks : checks[c].pc \in {"send", "sendError"}}

\* C33: every status goroutine ends in every execution: once
\* WithdrawMinipool has returned, the only receiver of the channels is gone,
\* and no goroutine is at a send, where it would stay for ever.
C33_NoGoroutineBlockedAfterReturn ==
    withdrawPc = "returned" => Sending = {}

\* C34: the state and the total effective stake a reader of the StateLocker
\* gets from GetState and then GetTotalEffectiveRPLStake come from the same
\* UpdateState call.
C34_ReaderSeesOnePair ==
    reader.pc = "done" => reader.state.call = reader.totalEffectiveStake.call
====
